---- MODULE Spec2Model ----
(***************************************************************************)
(* Cybear404 AutoCut Optimizer: the packing engine bin_packing_grouped and  *)
(* the metrics derived from its result (src/app.py).                        *)
(*                                                                          *)
(* Lengths are integers counting eighths of a unit (0.125 == 1, 120 ==      *)
(* 960).  Every such value and every sum or difference of such values is a  *)
(* dyadic rational that a Python float holds exactly, so the float          *)
(* arithmetic of the packing loop is exact integer arithmetic here.  The    *)
(* tolerance 1e-6 of the source is smaller than one eighth, so              *)
(* "x - L > 1e-6" is "x - L > 0" on these values.                           *)
(*                                                                          *)
(* A spreadsheet cell is a record [ok, v]: ok says whether float(cell)      *)
(* succeeds and v is the value it yields.                                   *)
(***************************************************************************)
EXTENDS Integers, Sequences, FiniteSets, TLC

\* ------------------------------------------------------------------ bounds
\* longest "Cut Length" column of a generated group
MaxCuts == 4
\* cap on the working bin list; a carving loop that ends stays below it (at most
\* three bins per cut of a generated group), so only an endless loop meets it
MaxBins == 16

\* ------------------------------------------------------------------- cells
Num(x) == [ok |-> TRUE, v |-> x]
NotNumeric == [ok |-> FALSE, v |-> 0]
\* a cell holding the text of a number ("3"): float() converts it, while
\* groupby keeps it apart from the number 3
NumText(x) == [ok |-> TRUE, v |-> x, text |-> TRUE]

\* values of the "Cut Length" column of generated groups
CutCells == {Num(0), Num(1), Num(3), Num(5), NotNumeric}
\* values of the "Max Length" column of generated groups
StockCells == {Num(-1), Num(0), Num(2), Num(3), Num(7), NotNumeric}
\* kerf widths of generated runs (0 and 0.125)
Kerfs == {0, 1}

SeqsUpTo(S, n) == UNION {[1..k -> S] : k \in 0..n}

\* one group of df.groupby(["Max Length", "Material Type"])
Group(stock, material, cuts) == [stock |-> stock, material |-> material, cuts |-> cuts]

GeneratedTables ==
    {<<Group(s, "Steel Rod", cs)>> : s \in StockCells, cs \in SeqsUpTo(CutCells, MaxCuts)}

\* stock length 120, cuts 100 and 15 (scenarios 2 and 5)
Scenario5Table == <<Group(Num(960), "Steel Rod", <<Num(800), Num(120)>>)>>

\* the worked scenarios: 120/[100,50], 120/[100,15], 96/[130], and a table of
\* two groups
ScenarioTables ==
    { <<Group(Num(960), "Steel Rod", <<Num(800), Num(400)>>)>>,
      Scenario5Table,
      <<Group(Num(768), "Steel Rod", <<Num(1040)>>)>>,
      <<Group(Num(7), "Steel Rod", <<Num(3), Num(5), Num(1), Num(3)>>),
        Group(Num(3), "Aluminum", <<Num(5), NotNumeric, Num(1)>>)>> }

Tables == GeneratedTables \cup ScenarioTables

\* --------------------------------------------------------------- arithmetic
RECURSIVE SumSeq(_)
SumSeq(s) == IF s = <<>> THEN 0 ELSE Head(s) + SumSeq(Tail(s))

Max(a, b) == IF a >= b THEN a ELSE b

\* [float(x) for x in column if float(x) succeeds], lines 126-131
RECURSIVE NumericItems(_)
NumericItems(cells) ==
    IF cells = <<>> THEN <<>>
    ELSE IF Head(cells).ok THEN <<Head(cells).v>> \o NumericItems(Tail(cells))
         ELSE NumericItems(Tail(cells))

\* insert x into the descending sequence s, after the elements equal to it
RECURSIVE InsertDesc(_, _)
InsertDesc(x, s) ==
    IF s = <<>> THEN <<x>>
    ELSE IF x > Head(s) THEN <<x>> \o s
         ELSE <<Head(s)>> \o InsertDesc(x, Tail(s))

\* items.sort(reverse=True), line 133
RECURSIVE SortReverse(_)
SortReverse(s) ==
    IF s = <<>> THEN <<>>
    ELSE InsertDesc(s[Len(s)], SortReverse(SubSeq(s, 1, Len(s) - 1)))

\* --------------------------------------------------------------- kerf text
\* A text is a sequence of characters.  A parsed number is [ok, n, d]: the
\* value n/d with d > 0, or ok = FALSE where the conversion raises.
DigitValue == [c \in {"0", "1", "2", "3", "4", "5", "6", "7", "8", "9"} |->
                CASE c = "0" -> 0 [] c = "1" -> 1 [] c = "2" -> 2 [] c = "3" -> 3
                  [] c = "4" -> 4 [] c = "5" -> 5 [] c = "6" -> 6 [] c = "7" -> 7
                  [] c = "8" -> 8 [] c = "9" -> 9]
IsDigit(c) == c \in DOMAIN DigitValue

ParseError == [ok |-> FALSE, n |-> 0, d |-> 1]
Parsed(n, d) == [ok |-> TRUE, n |-> n, d |-> d]

\* str.strip(): the text without its leading and trailing blanks
RECURSIVE LStrip(_)
LStrip(t) == IF t # <<>> /\ Head(t) = " " THEN LStrip(Tail(t)) ELSE t
RECURSIVE RStrip(_)
RStrip(t) == IF t # <<>> /\ t[Len(t)] = " " THEN RStrip(SubSeq(t, 1, Len(t) - 1)) ELSE t
Strip(t) == RStrip(LStrip(t))

\* the digits and at most one point of an unsigned decimal, read from the
\* left: n the digits read so far as a number, d the power of ten of the
\* digits read after the point, seen whether a digit was read
RECURSIVE ParseDigits(_, _, _, _, _)
ParseDigits(t, n, d, point, seen) ==
    IF t = <<>> THEN (IF seen THEN Parsed(n, d) ELSE ParseError)
    ELSE IF IsDigit(Head(t))
         THEN ParseDigits(Tail(t), 10 * n + DigitValue[Head(t)],
                          IF point THEN 10 * d ELSE d, point, TRUE)
    ELSE IF Head(t) = "." /\ ~point THEN ParseDigits(Tail(t), n, d, TRUE, seen)
    ELSE ParseError

\* float(text) on the texts made of blanks, a sign, digits and a point
ParseFloat(text) ==
    LET t == Strip(text)
    IN IF t = <<>> THEN ParseError
       ELSE IF Head(t) = "-"
            THEN LET p == ParseDigits(Tail(t), 0, 1, FALSE, FALSE)
                 IN IF p.ok THEN Parsed(-p.n, p.d) ELSE ParseError
       ELSE IF Head(t) = "+" THEN ParseDigits(Tail(t), 0, 1, FALSE, FALSE)
       ELSE ParseDigits(t, 0, 1, FALSE, FALSE)

\* t.split("/", 1): the position of the first "/" of t, 0 if there is none
RECURSIVE SlashAt(_, _)
SlashAt(t, i) == IF i > Len(t) THEN 0 ELSE IF t[i] = "/" THEN i ELSE SlashAt(t, i + 1)

\* parse_fraction_or_decimal, lines 91-101: [ok, v, msg], v the kerf in
\* eighths (the texts of the model denote multiples of 0.125)
Eighths(p) == (8 * p.n) \div p.d
KerfRequired == [ok |-> FALSE, v |-> 0, msg |-> "Kerf width is required."]
KerfInvalid == [ok |-> FALSE, v |-> 0, msg |-> "Invalid kerf format."]
KerfValue(v) == [ok |-> TRUE, v |-> v, msg |-> ""]

parse_fraction_or_decimal(text) ==
    LET t == Strip(text)
        k == SlashAt(t, 1)
    IN IF t = <<>> THEN KerfRequired
       ELSE IF k > 0
            THEN LET num == ParseFloat(SubSeq(t, 1, k - 1))
                     den == ParseFloat(SubSeq(t, k + 1, Len(t)))
                 IN IF ~num.ok \/ ~den.ok \/ den.n = 0 THEN KerfInvalid
                    ELSE KerfValue(Eighths(Parsed(IF den.n < 0 THEN -(num.n * den.d)
                                                                 ELSE num.n * den.d,
                                                  IF den.n < 0 THEN -(num.d * den.n)
                                                                 ELSE num.d * den.n)))
       ELSE LET p == ParseFloat(t)
            IN IF p.ok THEN KerfValue(Eighths(p)) ELSE KerfInvalid

\* ------------------------------------------------------------ placement scan
\* used = sum(b) + saw_width * len(b), line 159
Used(b, kerf) == SumSeq(b) + kerf * Len(b)

\* needed = remaining_item + (saw_width if b else 0.0), line 161
Needed(b, piece, kerf) == piece + (IF b # <<>> THEN kerf ELSE 0)

\* ScanBins with "waste_after <= least_waste": a tie goes to the latest bin
RECURSIVE ScanBins_LastTie(_, _, _, _, _, _, _)
ScanBins_LastTie(bs, L, piece, kerf, idx, best_idx, least_waste) ==
    IF idx > Len(bs) THEN best_idx
    ELSE LET remaining_len == L - Used(bs[idx], kerf)
             needed == Needed(bs[idx], piece, kerf)
             waste_after == remaining_len - needed
         IN IF remaining_len >= needed /\ (best_idx = -1 \/ waste_after <= least_waste)
            THEN ScanBins_LastTie(bs, L, piece, kerf, idx + 1, idx, waste_after)
            ELSE ScanBins_LastTie(bs, L, piece, kerf, idx + 1, best_idx, least_waste)

\* the loop of lines 158-166 from index idx on; best_idx = -1 stands for
\* least_waste = float('inf'), which every finite waste_after is below
RECURSIVE ScanBins(_, _, _, _, _, _, _)
ScanBins(bs, L, piece, kerf, idx, best_idx, least_waste) ==
    IF idx > Len(bs) THEN best_idx
    ELSE LET remaining_len == L - Used(bs[idx], kerf)
             needed == Needed(bs[idx], piece, kerf)
             waste_after == remaining_len - needed
         IN IF remaining_len >= needed /\ (best_idx = -1 \/ waste_after < least_waste)
            THEN ScanBins(bs, L, piece, kerf, idx + 1, idx, waste_after)
            ELSE ScanBins(bs, L, piece, kerf, idx + 1, best_idx, least_waste)

\* best_idx after the scan (1-based; -1 when no bin fits), lines 154-166
BestIdx(bs, L, piece, kerf) == ScanBins(bs, L, piece, kerf, 1, -1, 0)

\* PlaceInto with "bins[best_idx] = [remaining_item]" for the append of line 169
PlaceInto_Overwrite(bs, L, piece, kerf) ==
    LET best_idx == BestIdx(bs, L, piece, kerf)
    IN IF best_idx # -1
       THEN [bs EXCEPT ![best_idx] = <<piece>>]
       ELSE Append(bs, <<piece>>)

\* lines 168-173
PlaceInto(bs, L, piece, kerf) ==
    LET best_idx == BestIdx(bs, L, piece, kerf)
    IN IF best_idx # -1
       THEN [bs EXCEPT ![best_idx] = Append(@, piece)]
       ELSE Append(bs, <<piece>>)

\* Issue with the stock length written into "Cut Length"
Issue_StockAsCut(material, L, cut) == [Material |-> material, StockLength |-> L, CutLength |-> L]

\* the dict entry of lines 143-148
Issue(material, L, cut) == [Material |-> material, StockLength |-> L, CutLength |-> cut]

\* the entry of grouped_bins written at lines 175-176
GroupEntry(material, L, bs) == [Material |-> material, L |-> L, bins |-> bs]

\* the position of the key (label, str(material), float(L)) in the dict gb, 0
\* if it is not a key (the label is a function of the other two)
KeyIndex(gb, material, L) ==
    IF \E k \in DOMAIN gb : gb[k].Material = material /\ gb[k].L = L
    THEN CHOOSE k \in DOMAIN gb : gb[k].Material = material /\ gb[k].L = L
    ELSE 0

\* d[key] = value on a dict kept as the sequence of its values in insertion
\* order: a key already present keeps its place and takes the new value
DictSet(d, k, value) == IF k = 0 THEN Append(d, value) ELSE [d EXCEPT ![k] = value]

\* ------------------------------------------------------------------ metrics
\* round(x, 3) of a length x in eighths, as a count of thousandths: an eighth
\* is 0.125 exactly, so the rounding changes no such value
Round3(x) == x * 125

\* num/den rounded to the nearest integer, a tie going to the even one
RoundHalfEven(num, den) ==
    LET n == IF den < 0 THEN 0 - num ELSE num
        d == IF den < 0 THEN 0 - den ELSE den
        q == n \div d
        r == n - q * d
    IN IF 2 * r < d THEN q
       ELSE IF 2 * r > d THEN q + 1
       ELSE IF q % 2 = 0 THEN q ELSE q + 1

\* round(ratio * 100, 2) of ratio = num/den, as a count of hundredths of a percent.
\* The float computation gives this value unless the exact percentage ends in
\* ...5 thousandths, where the float may lie on either side of the tie; no
\* stock total of the model meets such a tie.
RoundPct(num, den) == RoundHalfEven(10000 * num, den)

\* sum(sum(b) for b in bins), line 232
RECURSIVE CutsTotal(_)
CutsTotal(bs) == IF bs = <<>> THEN 0 ELSE SumSeq(Head(bs)) + CutsTotal(Tail(bs))

\* KerfTotal charging kerf between cuts only: kerf * (len(b) - 1)
RECURSIVE KerfTotal_Between(_, _)
KerfTotal_Between(bs, kerf) ==
    IF bs = <<>> THEN 0
    ELSE (IF Head(bs) # <<>> THEN kerf * (Len(Head(bs)) - 1) ELSE 0)
         + KerfTotal_Between(Tail(bs), kerf)

\* sum(kerf * len(b) for b in bins if b), line 233
RECURSIVE KerfTotal(_, _)
KerfTotal(bs, kerf) ==
    IF bs = <<>> THEN 0
    ELSE (IF Head(bs) # <<>> THEN kerf * Len(Head(bs)) ELSE 0) + KerfTotal(Tail(bs), kerf)

\* BarWaste without the clamp max(0.0, ...)
BarWaste_NoClamp(L, b, kerf) == L - (SumSeq(b) + kerf * Len(b))

\* max(0.0, L - (sum(b) + kerf * len(b))), the term of line 234
BarWaste(L, b, kerf) == Max(0, L - (SumSeq(b) + kerf * Len(b)))

\* sum(... for b in bins if b), line 234
RECURSIVE WasteTotal(_, _, _)
WasteTotal(bs, L, kerf) ==
    IF bs = <<>> THEN 0
    ELSE (IF Head(bs) # <<>> THEN BarWaste(L, Head(bs), kerf) ELSE 0)
         + WasteTotal(Tail(bs), L, kerf)

\* UtilizationPct with round(util, 2) for round(util * 100, 2)
UtilizationPct_NoPercent(stock_total, waste_total) ==
    IF stock_total # 0 THEN RoundHalfEven(100 * (stock_total - waste_total), stock_total) ELSE 0

\* util = (stock_total - waste_total) / stock_total if stock_total else 0, then
\* round(util * 100, 2): lines 237 and 246
UtilizationPct(stock_total, waste_total) ==
    IF stock_total # 0 THEN RoundPct(stock_total - waste_total, stock_total) ELSE 0

\* one row of build_summary, lines 232-247 (the label column is left out)
SummaryRow(e, kerf) ==
    LET cuts_total == CutsTotal(e.bins)
        kerf_total == KerfTotal(e.bins, kerf)
        waste_total == WasteTotal(e.bins, e.L, kerf)
        bars == Len(e.bins)
        stock_total == e.L * bars
    IN [Material |-> e.Material,
        StockLength |-> e.L,
        BarsUsed |-> bars,
        TotalCutLength |-> Round3(cuts_total),
        ApproxKerfUsed |-> Round3(kerf_total),
        EstimatedWaste |-> Round3(waste_total),
        UtilizationPct |-> UtilizationPct(stock_total, waste_total)]

\* the materials, in string order
MaterialOrder == <<"Aluminum", "Steel Rod">>
MaterialRank(m) == CHOOSE i \in 1..Len(MaterialOrder) : MaterialOrder[i] = m

\* (Material, Stock Length) of row a sorts before that of row b
RowBefore(a, b) ==
    \/ MaterialRank(a.Material) < MaterialRank(b.Material)
    \/ a.Material = b.Material /\ a.StockLength < b.StockLength

RECURSIVE InsertRow(_, _)
InsertRow(x, s) ==
    IF s = <<>> THEN <<x>>
    ELSE IF RowBefore(x, Head(s)) THEN <<x>> \o s
         ELSE <<Head(s)>> \o InsertRow(x, Tail(s))

\* sort_values(["Material", "Stock Length"]), line 248
RECURSIVE SortRows(_)
SortRows(rows) ==
    IF rows = <<>> THEN <<>>
    ELSE InsertRow(rows[Len(rows)], SortRows(SubSeq(rows, 1, Len(rows) - 1)))

\* build_summary, lines 229-248: the rows of the frame (none for an empty frame)
BuildSummaryRows(gb, kerf) == SortRows([i \in 1..Len(gb) |-> SummaryRow(gb[i], kerf)])

\* the bars counted at lines 266-270
RECURSIVE FeasibleViolations(_, _, _)
FeasibleViolations(bs, L, kerf) ==
    IF bs = <<>> THEN 0
    ELSE (IF (SumSeq(Head(bs)) + kerf * Len(Head(bs))) - L > 0 THEN 1 ELSE 0)
         + FeasibleViolations(Tail(bs), L, kerf)

RECURSIVE AllFeasibleViolations(_, _)
AllFeasibleViolations(gb, kerf) ==
    IF gb = <<>> THEN 0
    ELSE FeasibleViolations(Head(gb).bins, Head(gb).L, kerf)
         + AllFeasibleViolations(Tail(gb), kerf)

\* the Validation sheet, lines 264-286
ValidationSheet(gb, kerf, rows) ==
    LET feasible_violations == AllFeasibleViolations(gb, kerf)
        negative_waste == \E i \in 1..Len(rows) : rows[i].EstimatedWaste < 0
    IN [Feasibility |-> IF feasible_violations = 0 THEN "PASS" ELSE "FAIL",
        NonNegativeWaste |-> IF negative_waste THEN "FAIL" ELSE "PASS",
        ViolatingBars |-> feasible_violations,
        AllPassed |-> feasible_violations = 0 /\ ~negative_waste]

RECURSIVE InsertBar(_, _)
InsertBar(b, s) ==
    IF s = <<>> THEN <<b>>
    ELSE IF SumSeq(b) > SumSeq(Head(s)) THEN <<b>> \o s
         ELSE <<Head(s)>> \o InsertBar(b, Tail(s))

\* sorted(bins, key=lambda x: -sum(x)), lines 210 and 298: a new list
RECURSIVE SortedBars(_)
SortedBars(bs) ==
    IF bs = <<>> THEN <<>>
    ELSE InsertBar(bs[Len(bs)], SortedBars(SubSeq(bs, 1, Len(bs) - 1)))

\* one row of the Waste Report, lines 299-305
WasteRow(e, i, b, kerf) ==
    LET sum_cuts == SumSeq(b)
        kerf_used == kerf * Len(b)
        used_total == sum_cuts + kerf_used
    IN [Material |-> e.Material,
        StockLength |-> e.L,
        Bar |-> i,
        Pieces |-> [k \in 1..Len(b) |-> Round3(b[k])],
        SumCuts |-> Round3(sum_cuts),
        KerfUsed |-> Round3(kerf_used),
        UsedTotal |-> Round3(used_total),
        Leftover |-> Round3(Max(0, e.L - used_total)),
        UtilPct |-> IF e.L # 0 THEN RoundPct(used_total, e.L) ELSE 0]

\* the rows of the Waste Report, lines 297-305
RECURSIVE WasteReportRows(_, _)
WasteReportRows(gb, kerf) ==
    IF gb = <<>> THEN <<>>
    ELSE LET sb == SortedBars(Head(gb).bins)
         IN [i \in 1..Len(sb) |-> WasteRow(Head(gb), i, sb[i], kerf)]
            \o WasteReportRows(Tail(gb), kerf)

\* groupby(["Material", "Stock Length"]).agg(sum) over rows sorted on that key,
\* lines 313-317
RECURSIVE Aggregate(_)
Aggregate(rows) ==
    IF rows = <<>> THEN <<>>
    ELSE LET h == [Material |-> Head(rows).Material,
                   StockLength |-> Head(rows).StockLength,
                   BarsUsed |-> Head(rows).BarsUsed,
                   EstimatedWaste |-> Head(rows).EstimatedWaste]
             rest == Aggregate(Tail(rows))
         IN IF rest # <<>> /\ Head(rest).Material = h.Material
                          /\ Head(rest).StockLength = h.StockLength
            THEN <<[h EXCEPT !.BarsUsed = @ + Head(rest).BarsUsed,
                             !.EstimatedWaste = @ + Head(rest).EstimatedWaste]>>
                 \o Tail(rest)
            ELSE <<h>> \o rest

\* -------------------------------------------------------------------- state
VARIABLES
    table,                 \* df, as the sequence of its groups
    saw_width,             \* kerf
    allow_split_oversize,
    pc,                    \* position in bin_packing_grouped
    gi,                    \* groups of the groupby loop already taken
    items,                 \* items of the current group not yet processed
    bins,                  \* working bins of the current group
    max_len_val,
    remaining_item,
    grouped_bins,          \* result dict, in insertion order
    issues,
    carved,                \* history: indices of the working bins appended at line 151
    grouped_carved,        \* history: carved, per entry of grouped_bins
    df_summary,            \* None, or Some(rows) once build_summary has run
    validation,            \* None, or Some(the Validation sheet)
    waste_report,          \* None, or Some(the Waste Report sheet)
    procurement,           \* None, or Some(the Procurement sheet)
    runs,                  \* calls of run_optimizer so far
    kerf_text,             \* kerf_edit.text() of the current call, a sequence of characters
    columns,               \* df.columns of the current call
    message,               \* title of the dialog the current call has shown, "" if none
    wb,                    \* the workbook file at path: its sheets, in order
    out_wb,                \* the workbook write_grouped_bins and the report writers load
    to_copy,               \* write_to_copy of the current call
    overwrite,             \* overwrite_sheet of the current call
    sheet_name,            \* write_grouped_bins
    counter,               \* write_grouped_bins
    sheets_before          \* history: the sheets of out_path when write_grouped_bins loads it

packing == <<pc, gi, items, bins, max_len_val, remaining_item, grouped_bins, issues,
             carved, grouped_carved>>

\* packing without pc
packing_data == <<gi, items, bins, max_len_val, remaining_item, grouped_bins, issues,
                  carved, grouped_carved>>

sheets == <<df_summary, validation, waste_report, procurement>>

\* the state of run_optimizer around the packing and the reports
run == <<runs, kerf_text, columns, message, wb, out_wb, to_copy, overwrite, sheet_name,
         counter, sheets_before>>

vars == <<table, saw_width, allow_split_oversize, packing, sheets, run>>

\* what bin_packing_grouped and the report functions are given and leave alone
inputs == <<table, saw_width, allow_split_oversize, run>>

None == <<>>
Some(x) == <<x>>

\* bin_packing_grouped and the report functions called on their own, not from
\* run_optimizer
NoRun ==
    /\ runs = 0
    /\ kerf_text = <<>>
    /\ columns = {}
    /\ message = ""
    /\ wb = <<>>
    /\ out_wb = <<>>
    /\ to_copy = FALSE
    /\ overwrite = FALSE
    /\ sheet_name = <<>>
    /\ counter = 0
    /\ sheets_before = <<>>

Init ==
    /\ table \in Tables
    /\ saw_width \in Kerfs
    /\ allow_split_oversize \in BOOLEAN
    /\ pc = "for_group"
    /\ gi = 0
    /\ items = <<>>
    /\ bins = <<>>
    /\ max_len_val = 0
    /\ remaining_item = 0
    /\ grouped_bins = <<>>
    /\ issues = <<>>
    /\ carved = {}
    /\ grouped_carved = <<>>
    /\ df_summary = None
    /\ validation = None
    /\ waste_report = None
    /\ procurement = None
    /\ NoRun

\* ------------------------------------------------------ bin_packing_grouped
\* lines 125-138 with float(max_length) raising: continue
GroupSkip ==
    /\ pc = "for_group"
    /\ gi < Len(table)
    /\ ~table[gi + 1].stock.ok
    /\ gi' = gi + 1
    /\ items' = SortReverse(NumericItems(table[gi + 1].cuts))
    /\ bins' = <<>>
    /\ carved' = {}
    /\ UNCHANGED <<inputs, sheets, pc, max_len_val, remaining_item, grouped_bins, issues,
                   grouped_carved>>

\* lines 125-138 with a numeric stock length
GroupBegin ==
    /\ pc = "for_group"
    /\ gi < Len(table)
    /\ table[gi + 1].stock.ok
    /\ gi' = gi + 1
    /\ items' = SortReverse(NumericItems(table[gi + 1].cuts))
    /\ bins' = <<>>
    /\ carved' = {}
    /\ max_len_val' = table[gi + 1].stock.v
    /\ pc' = "for_item"
    /\ UNCHANGED <<inputs, sheets, remaining_item, grouped_bins, issues, grouped_carved>>

\* lines 140-149: an oversize cut with splitting off
ItemReject ==
    /\ pc = "for_item"
    /\ items # <<>>
    /\ Head(items) > max_len_val /\ ~allow_split_oversize
    /\ remaining_item' = Head(items)
    /\ issues' = Append(issues, Issue(table[gi].material, max_len_val, Head(items)))
    /\ items' = Tail(items)
    /\ UNCHANGED <<inputs, sheets, pc, gi, bins, max_len_val, grouped_bins, carved,
                   grouped_carved>>

\* lines 140-142 otherwise: on to the while loop of line 150
ItemTake ==
    /\ pc = "for_item"
    /\ items # <<>>
    /\ ~(Head(items) > max_len_val /\ ~allow_split_oversize)
    /\ remaining_item' = Head(items)
    /\ items' = Tail(items)
    /\ pc' = "while_split"
    /\ UNCHANGED <<inputs, sheets, gi, bins, max_len_val, grouped_bins, issues, carved,
                   grouped_carved>>

\* Carve taking the kerf off the remainder as well: remaining_item -=
\* max_len_val + saw_width
Carve_KerfOff ==
    /\ pc = "while_split"
    /\ remaining_item > max_len_val /\ allow_split_oversize
    /\ Len(bins) < MaxBins
    /\ bins' = Append(bins, <<max_len_val>>)
    /\ carved' = carved \cup {Len(bins) + 1}
    /\ remaining_item' = remaining_item - (max_len_val + saw_width)
    /\ UNCHANGED <<inputs, sheets, pc, gi, items, max_len_val, grouped_bins, issues,
                   grouped_carved>>

\* one iteration of the while loop, lines 150-152
Carve ==
    /\ pc = "while_split"
    /\ remaining_item > max_len_val /\ allow_split_oversize
    /\ Len(bins) < MaxBins
    /\ bins' = Append(bins, <<max_len_val>>)
    /\ carved' = carved \cup {Len(bins) + 1}
    /\ remaining_item' = remaining_item - max_len_val
    /\ UNCHANGED <<inputs, sheets, pc, gi, items, max_len_val, grouped_bins, issues,
                   grouped_carved>>

\* lines 154-173 once the while loop has ended
Place ==
    /\ pc = "while_split"
    /\ ~(remaining_item > max_len_val /\ allow_split_oversize)
    /\ bins' = PlaceInto(bins, max_len_val, remaining_item, saw_width)
    /\ pc' = "for_item"
    /\ UNCHANGED <<inputs, sheets, gi, items, max_len_val, remaining_item, grouped_bins,
                   issues, carved, grouped_carved>>

\* lines 175-176
GroupEnd ==
    /\ pc = "for_item"
    /\ items = <<>>
    /\ LET k == KeyIndex(grouped_bins, table[gi].material, max_len_val)
       IN /\ grouped_bins' = DictSet(grouped_bins, k,
                                     GroupEntry(table[gi].material, max_len_val, bins))
          /\ grouped_carved' = DictSet(grouped_carved, k, carved)
    /\ pc' = "for_group"
    /\ UNCHANGED <<inputs, sheets, gi, items, bins, max_len_val, remaining_item, issues,
                   carved>>

\* line 178
Return ==
    /\ pc = "for_group"
    /\ gi = Len(table)
    /\ pc' = "packed"
    /\ UNCHANGED <<inputs, sheets, gi, items, bins, max_len_val, remaining_item,
                   grouped_bins, issues, carved, grouped_carved>>

\* ------------------------------------------------------------------ reports
\* build_summary, lines 229-248 (run_optimizer line 678)
BuildSummary ==
    /\ pc = "packed"
    /\ df_summary' = Some(BuildSummaryRows(grouped_bins, saw_width))
    /\ UNCHANGED <<inputs, packing, validation, waste_report, procurement>>

\* write_validation_sheet, lines 264-288, on the summary the caller holds or
\* builds (run_optimizer lines 684-685)
WriteValidation ==
    /\ pc = "packed"
    /\ df_summary' = IF df_summary # None THEN df_summary
                     ELSE Some(BuildSummaryRows(grouped_bins, saw_width))
    /\ validation' = Some(ValidationSheet(grouped_bins, saw_width, df_summary'[1]))
    /\ UNCHANGED <<inputs, packing, waste_report, procurement>>

\* WriteWasteReport with bins.sort(key=...) in place for sorted(bins, key=...)
WriteWasteReport_InPlace ==
    /\ pc = "packed"
    /\ grouped_bins' = [e \in DOMAIN grouped_bins |->
                            [grouped_bins[e] EXCEPT !.bins = SortedBars(@)]]
    /\ waste_report' = Some(WasteReportRows(grouped_bins', saw_width))
    /\ UNCHANGED <<inputs, pc, gi, items, bins, max_len_val, remaining_item, issues,
                   carved, grouped_carved, df_summary, validation, procurement>>

\* write_waste_report_sheet, lines 291-307
WriteWasteReport ==
    /\ pc = "packed"
    /\ waste_report' = Some(WasteReportRows(grouped_bins, saw_width))
    /\ UNCHANGED <<inputs, packing, df_summary, validation, procurement>>

\* write_procurement_sheet, lines 310-326: no sheet for an empty summary
WriteProcurement ==
    /\ pc = "packed"
    /\ df_summary # None
    /\ procurement' = IF df_summary[1] = <<>> THEN procurement
                      ELSE Some(Aggregate(df_summary[1]))
    /\ UNCHANGED <<inputs, packing, df_summary, validation, waste_report>>

Next ==
    \/ GroupSkip
    \/ GroupBegin
    \/ ItemReject
    \/ ItemTake
    \/ Carve
    \/ Place
    \/ GroupEnd
    \/ Return
    \/ BuildSummary
    \/ WriteValidation
    \/ WriteWasteReport
    \/ WriteProcurement

Spec == Init /\ [][Next]_vars

\* --------------------------------------------------- tables of two groups
\* longest "Cut Length" column of a group of a two-group table
MaxGroupCuts == 2

\* the groups of df.groupby hold at least one row and have pairwise different
\* (Max Length, Material Type) cell values; the number 3 and the text "3" are
\* different values
PairStocks == {Num(2), Num(3), NumText(3), NotNumeric}
PairCuts == {Num(1), Num(5)}
PairGroups(materials) ==
    {Group(s, m, cs) : s \in PairStocks, m \in materials,
                       cs \in SeqsUpTo(PairCuts, MaxGroupCuts) \ {<<>>}}
PairTables ==
    {<<g, h>> : g \in PairGroups({"Steel Rod"}), h \in PairGroups({"Steel Rod", "Aluminum"})}

InitGroups ==
    /\ table \in {t \in PairTables : <<t[1].stock, t[1].material>> # <<t[2].stock, t[2].material>>}
    /\ saw_width \in Kerfs
    /\ allow_split_oversize \in BOOLEAN
    /\ pc = "for_group"
    /\ gi = 0
    /\ items = <<>>
    /\ bins = <<>>
    /\ max_len_val = 0
    /\ remaining_item = 0
    /\ grouped_bins = <<>>
    /\ issues = <<>>
    /\ carved = {}
    /\ grouped_carved = <<>>
    /\ df_summary = None
    /\ validation = None
    /\ waste_report = None
    /\ procurement = None
    /\ NoRun

SpecGroups == InitGroups /\ [][Next]_vars

\* ------------------------------------------------------------ run_optimizer
\* calls of run_optimizer on one workbook
MaxRuns == 2

\* texts of the kerf field: blank, not a number, negative, and good ones
EmptyTexts == {<<>>, <<" ">>}
UnparsableTexts == {<<"x">>, <<"1", "/", "0">>}
NegativeTexts == {<<"-", "1", "/", "8">>}
GoodTexts == {<<"1", "/", "8">>, <<"0", ".", "1", "2", "5">>, <<"0">>}
KerfTexts == EmptyTexts \cup UnparsableTexts \cup NegativeTexts \cup GoodTexts

\* line 648
Required == {"Cut Length", "Max Length", "Material Type"}
\* df.columns of the workbooks read
ColumnSets == {Required, Required \cup {"Notes"}, Required \ {"Cut Length"}, {"Notes"}}

\* the tables read: a cut that fits, an oversize cut with one that fits, a
\* group whose stock length is not a number
RunTables ==
    { <<Group(Num(3), "Steel Rod", <<Num(1)>>)>>,
      <<Group(Num(3), "Steel Rod", <<Num(5), Num(1)>>)>>,
      <<Group(NotNumeric, "Steel Rod", <<Num(1)>>)>> }

\* sheet names: a plain text, and f"{base_sheet_name} {counter}"
Plain(text) == <<text>>
Numbered(base, n) == <<base, n>>
DEFAULT_SHEET_NAME == "Grouped Cuts"

\* a sheet: its name and the call of run_optimizer that created it (0: it was
\* in the workbook before the first call)
Sheet(name, by) == [name |-> name, by |-> by]
SheetNames(w) == {w[i].name : i \in DOMAIN w}

\* del wb[name]
DeleteSheet(w, name) == SelectSeq(w, LAMBDA sh : sh.name # name)
\* if name in wb.sheetnames: del wb[name]; then wb.create_sheet(name)
ReplaceSheet(w, name, by) == Append(DeleteSheet(w, name), Sheet(name, by))

\* write_issues_sheet, lines 329-340, under the test of line 689
write_issues_sheet(w, iss, by) ==
    IF iss = <<>> THEN w ELSE ReplaceSheet(w, Plain("Issues"), by)

\* the workbooks chosen: the data sheet alone, or with a sheet the user has
\* named "Grouped Cuts 1"
InputWorkbooks ==
    { <<Sheet(Plain("Sheet1"), 0)>>,
      <<Sheet(Plain("Sheet1"), 0), Sheet(Numbered(DEFAULT_SHEET_NAME, 1), 0)>> }

InitRun ==
    /\ table = <<>>
    /\ saw_width = 0
    /\ allow_split_oversize = FALSE
    /\ pc = "idle"
    /\ gi = 0
    /\ items = <<>>
    /\ bins = <<>>
    /\ max_len_val = 0
    /\ remaining_item = 0
    /\ grouped_bins = <<>>
    /\ issues = <<>>
    /\ carved = {}
    /\ grouped_carved = <<>>
    /\ df_summary = None
    /\ validation = None
    /\ waste_report = None
    /\ procurement = None
    /\ runs = 0
    /\ kerf_text = <<>>
    /\ columns = {}
    /\ message = ""
    /\ wb \in InputWorkbooks
    /\ out_wb = <<>>
    /\ to_copy = FALSE
    /\ overwrite = FALSE
    /\ sheet_name = <<>>
    /\ counter = 0
    /\ sheets_before = <<>>

\* the dialog of lines 616-652 for the file at the path ("" no path, "missing",
\* "locked", "unreadable": read_excel raises, "found"), the parsed kerf and the
\* columns read; "" if run_optimizer goes on to the packing
CheckTitle(path, kerf, cols) ==
    IF path = "" THEN "Missing File"
    ELSE IF path = "missing" THEN "File Not Found"
    ELSE IF ~kerf.ok THEN "Kerf Error"
    ELSE IF kerf.v < 0 THEN "Kerf Error"
    ELSE IF path = "locked" THEN "File Locked"
    ELSE IF path = "unreadable" THEN "Read Error"
    ELSE IF ~(Required \subseteq cols) THEN "Missing Columns"
    ELSE ""

\* run_optimizer, lines 615-652, ending in an error dialog
RunReject ==
    /\ pc = "idle"
    /\ runs < MaxRuns
    /\ \E path \in {"", "missing", "locked", "unreadable", "found"}, text \in KerfTexts,
          cols \in ColumnSets :
        LET title == CheckTitle(path, parse_fraction_or_decimal(text), cols)
        IN /\ title # ""
           /\ kerf_text' = text
           /\ message' = title
           /\ columns' = IF title = "Missing Columns" THEN cols ELSE {}
    /\ runs' = runs + 1
    /\ pc' = "dialog"
    /\ UNCHANGED <<table, saw_width, allow_split_oversize, packing_data, sheets, wb, out_wb,
                   to_copy, overwrite, sheet_name, counter, sheets_before>>

\* RunAccept without the test of line 629
RunAccept_NoSignTest ==
    /\ pc = "idle"
    /\ runs < MaxRuns
    /\ \E text \in KerfTexts, cols \in ColumnSets, t \in RunTables, split \in BOOLEAN :
        LET kerf == parse_fraction_or_decimal(text)
        IN /\ kerf.ok /\ Required \subseteq cols
           /\ kerf_text' = text
           /\ columns' = cols
           /\ table' = t
           /\ saw_width' = kerf.v
           /\ allow_split_oversize' = split
    /\ runs' = runs + 1
    /\ pc' = "for_group"
    /\ UNCHANGED <<packing_data, sheets, message, wb, out_wb, to_copy, overwrite,
                   sheet_name, counter, sheets_before>>

\* run_optimizer, lines 615-656, passing every test: on to the call of
\* bin_packing_grouped with the table read
RunAccept ==
    /\ pc = "idle"
    /\ runs < MaxRuns
    /\ \E text \in KerfTexts, cols \in ColumnSets, t \in RunTables, split \in BOOLEAN :
        LET kerf == parse_fraction_or_decimal(text)
        IN /\ CheckTitle("found", kerf, cols) = ""
           /\ kerf_text' = text
           /\ columns' = cols
           /\ table' = t
           /\ saw_width' = kerf.v
           /\ allow_split_oversize' = split
    /\ runs' = runs + 1
    /\ pc' = "for_group"
    /\ UNCHANGED <<packing_data, sheets, message, wb, out_wb, to_copy, overwrite,
                   sheet_name, counter, sheets_before>>

\* the return of run_optimizer after its dialog (an error, or Success at line
\* 699): its locals are gone, the workbook file stays
RunReturn ==
    /\ pc = "dialog"
    /\ pc' = "idle"
    /\ table' = <<>>
    /\ saw_width' = 0
    /\ allow_split_oversize' = FALSE
    /\ gi' = 0
    /\ items' = <<>>
    /\ bins' = <<>>
    /\ max_len_val' = 0
    /\ remaining_item' = 0
    /\ grouped_bins' = <<>>
    /\ issues' = <<>>
    /\ carved' = {}
    /\ grouped_carved' = <<>>
    /\ df_summary' = None
    /\ validation' = None
    /\ waste_report' = None
    /\ procurement' = None
    /\ kerf_text' = <<>>
    /\ columns' = {}
    /\ message' = ""
    /\ out_wb' = <<>>
    /\ to_copy' = FALSE
    /\ overwrite' = FALSE
    /\ sheet_name' = <<>>
    /\ counter' = 0
    /\ sheets_before' = <<>>
    /\ UNCHANGED <<runs, wb>>

\* write_grouped_bins, lines 181-198: load out_path (the file, or a fresh copy
\* of it) and settle what to do about a sheet of the base name
WriteBegin ==
    /\ pc = "packed"
    /\ \E ov \in BOOLEAN, cp \in BOOLEAN :
        /\ overwrite' = ov
        /\ to_copy' = cp
        /\ sheets_before' = wb
        /\ sheet_name' = Plain(DEFAULT_SHEET_NAME)
        /\ IF Plain(DEFAULT_SHEET_NAME) \in SheetNames(wb)
           THEN IF ov
                THEN /\ out_wb' = DeleteSheet(wb, Plain(DEFAULT_SHEET_NAME))
                     /\ counter' = 0
                     /\ pc' = "create_sheet"
                ELSE /\ out_wb' = wb
                     /\ counter' = 1
                     /\ pc' = "name_search"
           ELSE /\ out_wb' = wb
                /\ counter' = 0
                /\ pc' = "create_sheet"
    /\ UNCHANGED <<table, saw_width, allow_split_oversize, packing_data, sheets, runs,
                   kerf_text, columns, message, wb>>

\* NameSearch adding one to the counter before the name is made of it
NameSearch_IncrementFirst ==
    /\ pc = "name_search"
    /\ sheet_name \in SheetNames(out_wb)
    /\ sheet_name' = Numbered(DEFAULT_SHEET_NAME, counter + 1)
    /\ counter' = counter + 1
    /\ UNCHANGED <<table, saw_width, allow_split_oversize, packing, sheets, runs,
                   kerf_text, columns, message, wb, out_wb, to_copy, overwrite,
                   sheets_before>>

\* one iteration of the while loop, lines 199-201
NameSearch ==
    /\ pc = "name_search"
    /\ sheet_name \in SheetNames(out_wb)
    /\ sheet_name' = Numbered(DEFAULT_SHEET_NAME, counter)
    /\ counter' = counter + 1
    /\ UNCHANGED <<table, saw_width, allow_split_oversize, packing, sheets, runs,
                   kerf_text, columns, message, wb, out_wb, to_copy, overwrite,
                   sheets_before>>

\* lines 203-225: create the sheet, fill it and save the workbook
CreateSheet ==
    /\ \/ pc = "create_sheet"
       \/ pc = "name_search" /\ sheet_name \notin SheetNames(out_wb)
    /\ out_wb' = Append(out_wb, Sheet(sheet_name, runs))
    /\ wb' = IF to_copy THEN wb ELSE out_wb'
    /\ pc' = "written"
    /\ UNCHANGED <<table, saw_width, allow_split_oversize, packing_data, sheets, runs,
                   kerf_text, columns, message, to_copy, overwrite, sheet_name, counter,
                   sheets_before>>

\* run_optimizer, lines 674-700: the reports ticked, the Issues, the Success
\* dialog
RunReports ==
    /\ pc = "written"
    /\ \E summary \in BOOLEAN, valid \in BOOLEAN, waste \in BOOLEAN :
        LET rows == BuildSummaryRows(grouped_bins, saw_width)
            w1 == IF summary THEN ReplaceSheet(out_wb, Plain("Summary"), runs) ELSE out_wb
            w2 == IF summary /\ rows # <<>>
                  THEN ReplaceSheet(w1, Plain("Procurement"), runs) ELSE w1
            w3 == IF valid THEN ReplaceSheet(w2, Plain("Validation"), runs) ELSE w2
            w4 == IF waste THEN ReplaceSheet(w3, Plain("Waste Report"), runs) ELSE w3
            w5 == write_issues_sheet(w4, issues, runs)
        IN /\ df_summary' = IF summary \/ valid THEN Some(rows) ELSE None
           /\ procurement' = IF summary /\ rows # <<>> THEN Some(Aggregate(rows)) ELSE None
           /\ validation' = IF valid THEN Some(ValidationSheet(grouped_bins, saw_width, rows))
                            ELSE None
           /\ waste_report' = IF waste THEN Some(WasteReportRows(grouped_bins, saw_width))
                              ELSE None
           /\ out_wb' = w5
           /\ wb' = IF to_copy THEN wb ELSE w5
    /\ message' = "Success"
    /\ pc' = "dialog"
    /\ UNCHANGED <<table, saw_width, allow_split_oversize, packing_data, runs, kerf_text,
                   columns, to_copy, overwrite, sheet_name, counter, sheets_before>>

NextRun ==
    \/ RunReject
    \/ RunAccept
    \/ RunReturn
    \/ GroupSkip
    \/ GroupBegin
    \/ ItemReject
    \/ ItemTake
    \/ Carve
    \/ Place
    \/ GroupEnd
    \/ Return
    \/ WriteBegin
    \/ NameSearch
    \/ CreateSheet
    \/ RunReports

SpecRun == InitRun /\ [][NextRun]_vars

\* --------------------------------------- arbitrary results for the metrics
\* most bins of a generated GroupResult entry, and most cuts of one of its bins
MaxResultBins == 2
MaxBinCuts == 2

\* cut lengths and stock lengths of generated GroupResults
ResultCuts == {1, 4}
ResultStocks == {0, 4}

GeneratedResults ==
    {<<GroupEntry("Steel Rod", L, bs)>> :
        L \in ResultStocks,
        bs \in SeqsUpTo(SeqsUpTo(ResultCuts, MaxBinCuts), MaxResultBins)}

\* results of two groups, inserted against the order of the Summary
TwoGroupResults ==
    { <<GroupEntry("Steel Rod", 4, <<<<1>>, <<1, 1, 1>>, <<4>>>>), GroupEntry("Aluminum", 4, <<>>)>>,
      <<GroupEntry("Steel Rod", 7, <<<<5, 1>>, <<>>>>), GroupEntry("Steel Rod", 4, <<<<4, 4>>>>)>> }

Results == GeneratedResults \cup TwoGroupResults

\* a GroupResult handed to the metrics, whatever produced it
InitMetrics ==
    /\ table = <<>>
    /\ saw_width \in Kerfs
    /\ allow_split_oversize \in BOOLEAN
    /\ pc = "packed"
    /\ gi = 0
    /\ items = <<>>
    /\ bins = <<>>
    /\ max_len_val = 0
    /\ remaining_item = 0
    /\ grouped_bins \in Results
    /\ issues = <<>>
    /\ carved = {}
    /\ grouped_carved = [i \in 1..Len(grouped_bins) |-> {}]
    /\ df_summary = None
    /\ validation = None
    /\ waste_report = None
    /\ procurement = None
    /\ NoRun

NextMetrics ==
    \/ BuildSummary
    \/ WriteValidation
    \/ WriteWasteReport
    \/ WriteProcurement

SpecMetrics == InitMetrics /\ [][NextMetrics]_vars

\* ------------------------------------------------------ vocabulary of claims
Range(s) == {s[i] : i \in DOMAIN s}
Count(s, x) == Cardinality({i \in DOMAIN s : s[i] = x})
SameBag(s, t) == \A x \in Range(s) \cup Range(t) : Count(s, x) = Count(t, x)

RECURSIVE Flatten(_)
Flatten(bs) == IF bs = <<>> THEN <<>> ELSE Head(bs) \o Flatten(Tail(bs))

RECURSIVE SumOver(_, _)
SumOver(S, f) ==
    IF S = {} THEN 0
    ELSE LET x == CHOOSE y \in S : TRUE IN f[x] + SumOver(S \ {x}, f)

\* what a bar holds: its cuts and one kerf per cut
Load(b) == SumOver(DOMAIN b, b) + saw_width * Len(b)

\* groups of the table with a numeric stock length, and the entry of the result
\* that the g-th group of the table gets
NumericGroups == {g \in 1..Len(table) : table[g].stock.ok}
EntryOf(g) == Cardinality({h \in NumericGroups : h <= g})
CutsOf(g) == NumericItems(table[g].cuts)
Oversize(g) == {k \in DOMAIN CutsOf(g) : CutsOf(g)[k] > table[g].stock.v}

\* the bins of an entry without the filler cut that opened each carved bin
RECURSIVE WithoutFillers(_, _, _)
WithoutFillers(bs, cv, i) ==
    IF i > Len(bs) THEN <<>>
    ELSE (IF i \in cv THEN Tail(bs[i]) ELSE bs[i]) \o WithoutFillers(bs, cv, i + 1)

\* the bins of an entry without its carved bins
RECURSIVE WithoutCarved(_, _, _)
WithoutCarved(bs, cv, i) ==
    IF i > Len(bs) THEN <<>>
    ELSE (IF i \in cv THEN <<>> ELSE bs[i]) \o WithoutCarved(bs, cv, i + 1)

\* the cuts of s at the positions in P, in order
RECURSIVE Pick(_, _, _)
Pick(s, P, i) ==
    IF i > Len(s) THEN <<>>
    ELSE (IF i \in P THEN <<s[i]>> ELSE <<>>) \o Pick(s, P, i + 1)

\* ------------------------------------------------------------------- claims
\* C1 (feasibility): every bin of every group that bin_packing_grouped returns
\* has sum(cuts) + kerf*len(cuts) <= stock_length + 1e-6.  Stated for the
\* groups of positive stock length, the ones the packing is meant to reach.
C1_Feasibility ==
    pc = "packed" =>
        \A e \in DOMAIN grouped_bins :
            grouped_bins[e].L > 0 =>
                \A i \in DOMAIN grouped_bins[e].bins :
                    Load(grouped_bins[e].bins[i]) <= grouped_bins[e].L

Remainder(c, L) == IF c > L /\ L > 0 THEN ((c - 1) % L) + 1 ELSE c

FitSet(bs, L, piece) ==
    {i \in DOMAIN bs : L - Load(bs[i]) >= piece + saw_width}
LeftAfter(bs, L, piece, i) == L - Load(bs[i]) - (piece + saw_width)

\* the bins after the piece is placed by the rule: into the fitting bin of least
\* leftover, the earliest of them on a tie, else into a new bin
PlacedByRule(bs, L, piece) ==
    LET fit == FitSet(bs, L, piece)
    IN IF fit = {} THEN bs \o <<<<piece>>>>
       ELSE LET best == CHOOSE i \in fit :
                            \A j \in fit :
                                \/ LeftAfter(bs, L, piece, i) < LeftAfter(bs, L, piece, j)
                                \/ /\ LeftAfter(bs, L, piece, i) = LeftAfter(bs, L, piece, j)
                                   /\ i <= j
            IN [i \in DOMAIN bs |-> IF i = best THEN bs[i] \o <<piece>> ELSE bs[i]]

\* C3 (placement rule): the cuts of a group are taken in descending order, and
\* each piece goes into the fitting bin of least leftover, the earliest such
\* bin on a tie; a new bin is opened exactly when no bin fits.
C3_PlacementRule ==
    [][ /\ (pc = "for_group" /\ pc' = "for_item") =>
              /\ SameBag(items', CutsOf(gi'))
              /\ \A k \in 1..(Len(items') - 1) : items'[k] >= items'[k + 1]
        /\ (pc = "for_item" /\ items' # items) =>
              /\ remaining_item' = Head(items)
              /\ items' = Tail(items)
              /\ \A k \in DOMAIN items' : items'[k] <= remaining_item'
        /\ (pc = "while_split" /\ pc' = "for_item") =>
              /\ bins' = PlacedByRule(bins, max_len_val, remaining_item)
              /\ (Len(bins') = Len(bins) + 1) <=> (FitSet(bins, max_len_val, remaining_item) = {})
      ]_vars

\* a piece has just gone into a bin although an earlier bin still has room for it
C3_Witness ==
    /\ pc = "for_item"
    /\ \E i \in DOMAIN bins :
        /\ Len(bins[i]) >= 2
        /\ bins[i][Len(bins[i])] = remaining_item
        /\ \E j \in 1..(i - 1) : max_len_val - Load(bins[j]) >= remaining_item + saw_width

\* number of cuts of the table rejected when splitting is off
RejectedCount == SumOver(NumericGroups, [g \in NumericGroups |-> Cardinality(Oversize(g))])

\* C4 (oversize without splitting): with splitting off, every cut longer than
\* the stock gets exactly one Issue with the group's material, stock length and
\* the cut length and is in no bin, the other cuts are all placed, and there is
\* no other Issue; with splitting on there is never an Issue.
C4_OversizeIssues ==
    /\ allow_split_oversize => issues = <<>>
    /\ (pc = "packed" /\ ~allow_split_oversize) =>
        /\ Len(issues) = RejectedCount
        /\ \A g \in NumericGroups :
            LET e == EntryOf(g)
                L == table[g].stock.v
                placed == Flatten(grouped_bins[e].bins)
            IN \A c \in Range(CutsOf(g)) :
                IF c > L
                THEN /\ Count(issues, Issue(table[g].material, L, c)) = Count(CutsOf(g), c)
                     /\ Count(placed, c) = 0
                ELSE /\ Count(issues, Issue(table[g].material, L, c)) = 0
                     /\ Count(placed, c) = Count(CutsOf(g), c)

\* a finished run that rejected a cut and placed another
C4_Witness ==
    /\ pc = "packed"
    /\ ~allow_split_oversize
    /\ issues # <<>>
    /\ \E e \in DOMAIN grouped_bins : grouped_bins[e].bins # <<>>

\* number of whole stock lengths carved off a cut c > L > 0
CarveCount(c, L) == (c - 1) \div L

\* C5 (oversize with splitting): with splitting on and a positive stock
\* length, a cut c > stock_length gets n >= 1 carved bins and a remainder r with
\* c = n*stock_length + r and 0 < r <= stock_length that is placed like any
\* piece, and every carved bin holds just the one cut stock_length in the
\* result.
C5_OversizeSplit ==
    (pc = "packed" /\ allow_split_oversize) =>
        \A g \in NumericGroups :
            LET e == EntryOf(g)
                L == table[g].stock.v
                cuts == CutsOf(g)
            IN L > 0 =>
                /\ Cardinality(grouped_carved[e])
                     = SumOver(Oversize(g), [k \in Oversize(g) |-> CarveCount(cuts[k], L)])
                /\ \A k \in Oversize(g) :
                      /\ CarveCount(cuts[k], L) >= 1
                      /\ Remainder(cuts[k], L) > 0 /\ Remainder(cuts[k], L) <= L
                      /\ cuts[k] = CarveCount(cuts[k], L) * L + Remainder(cuts[k], L)
                /\ SameBag(WithoutFillers(grouped_bins[e].bins, grouped_carved[e], 1),
                           [k \in DOMAIN cuts |-> Remainder(cuts[k], L)])
                /\ \A i \in grouped_carved[e] : grouped_bins[e].bins[i] = <<L>>

\* the part of C5 that the code keeps: the count of carved bins, the remainder
\* and its placement, and the filler cut that opens each carved bin
C5_CarveArithmetic ==
    (pc = "packed" /\ allow_split_oversize) =>
        \A g \in NumericGroups :
            LET e == EntryOf(g)
                L == table[g].stock.v
                cuts == CutsOf(g)
            IN L > 0 =>
                /\ Cardinality(grouped_carved[e])
                     = SumOver(Oversize(g), [k \in Oversize(g) |-> CarveCount(cuts[k], L)])
                /\ SameBag(WithoutFillers(grouped_bins[e].bins, grouped_carved[e], 1),
                           [k \in DOMAIN cuts |-> Remainder(cuts[k], L)])
                /\ \A i \in grouped_carved[e] : Head(grouped_bins[e].bins[i]) = L

\* C6 (non-positive stock length): a group whose stock length is not numeric
\* or is <= 0 contributes no entry, no bins and no Issues to the result.
C6_NonPositiveStockSkipped ==
    pc = "packed" =>
        \A g \in 1..Len(table) :
            (~table[g].stock.ok \/ table[g].stock.v <= 0) =>
                /\ \A e \in DOMAIN grouped_bins :
                      ~(grouped_bins[e].Material = table[g].material
                        /\ table[g].stock.ok /\ grouped_bins[e].L = table[g].stock.v)
                /\ \A k \in DOMAIN issues :
                      ~(issues[k].Material = table[g].material
                        /\ table[g].stock.ok /\ issues[k].StockLength = table[g].stock.v)

\* what the code does keep of C6: a group whose stock length is not numeric
\* leaves nothing in the result
C6_NotNumericSkipped ==
    pc = "packed" =>
        /\ Len(grouped_bins) = Cardinality(NumericGroups)
        /\ \A k \in DOMAIN issues :
              \E g \in NumericGroups :
                  /\ issues[k].Material = table[g].material
                  /\ issues[k].StockLength = table[g].stock.v

\* --------------------------------------------------------- metrics claims
Abs(x) == IF x < 0 THEN 0 - x ELSE x
NonEmptyBars(bs) == {i \in DOMAIN bs : bs[i] # <<>>}

\* the Summary row of an entry of the result
RowFor(e) ==
    CHOOSE k \in DOMAIN df_summary[1] :
        /\ df_summary[1][k].Material = e.Material
        /\ df_summary[1][k].StockLength = e.L

\* C7 (summary derivation): each group has one Summary row with bars_used =
\* number of bins, total_cut_length = all cuts, kerf_used = kerf per cut of the
\* non-empty bins, estimated_waste = the leftovers max(0, stock - load) of the
\* non-empty bins, and utilization_pct = 100*(stock_total - waste)/stock_total
\* to the nearest hundredth (lengths in thousandths); a group without bins has
\* bars_used = 0 and utilization_pct = 0.
C7_SummaryDerivation ==
    df_summary # None =>
        /\ Len(df_summary[1]) = Len(grouped_bins)
        /\ \A e \in DOMAIN grouped_bins :
            LET bs == grouped_bins[e].bins
                L == grouped_bins[e].L
                ne == NonEmptyBars(bs)
                total == SumOver(DOMAIN bs, [i \in DOMAIN bs |-> SumOver(DOMAIN bs[i], bs[i])])
                kerf_used == SumOver(ne, [i \in ne |-> saw_width * Len(bs[i])])
                waste == SumOver(ne, [i \in ne |-> Max(0, L - Load(bs[i]))])
                stock_total == L * Len(bs)
            IN /\ \E k \in DOMAIN df_summary[1] :
                    /\ df_summary[1][k].Material = grouped_bins[e].Material
                    /\ df_summary[1][k].StockLength = L
               /\ LET row == df_summary[1][RowFor(grouped_bins[e])]
                  IN /\ row.BarsUsed = Len(bs)
                     /\ row.TotalCutLength = 125 * total
                     /\ row.ApproxKerfUsed = 125 * kerf_used
                     /\ row.EstimatedWaste = 125 * waste
                     /\ stock_total # 0 =>
                           2 * Abs(row.UtilizationPct * stock_total
                                   - 10000 * (stock_total - waste)) <= Abs(stock_total)
                     /\ bs = <<>> => (row.BarsUsed = 0 /\ row.UtilizationPct = 0)

\* a Summary of a group without bins and of a group with several bars, kerf
\* and leftover
C7_Witness ==
    /\ df_summary # None
    /\ saw_width > 0
    /\ \E e \in DOMAIN grouped_bins : grouped_bins[e].bins = <<>>
    /\ \E k \in DOMAIN df_summary[1] :
        /\ df_summary[1][k].BarsUsed >= 2
        /\ df_summary[1][k].EstimatedWaste > 0
        /\ df_summary[1][k].UtilizationPct > 0

\* the run of scenario 5 with its Summary built
Scenario5Summarised ==
    /\ pc = "packed"
    /\ table = Scenario5Table
    /\ saw_width = 1
    /\ df_summary # None

\* C8 as stated (scenario 5): stock 120, cuts [100, 15], kerf 0.125 gives the
\* single bin [100, 15], stock total 120, estimated_waste 4.75 and
\* utilization_pct 95.42.
C8_Scenario5AsStated ==
    Scenario5Summarised =>
        /\ grouped_bins[1].bins = <<<<800, 120>>>>
        /\ df_summary[1][1].StockLength * df_summary[1][1].BarsUsed = 960
        /\ df_summary[1][1].EstimatedWaste = 4750
        /\ df_summary[1][1].UtilizationPct = 9542

\* C8 as amended: the same with utilization_pct 96.04.
C8_Scenario5 ==
    Scenario5Summarised =>
        /\ grouped_bins[1].bins = <<<<800, 120>>>>
        /\ df_summary[1][1].StockLength * df_summary[1][1].BarsUsed = 960
        /\ df_summary[1][1].EstimatedWaste = 4750
        /\ df_summary[1][1].UtilizationPct = 9604

C8_Witness == Scenario5Summarised /\ Len(df_summary[1]) = 1

\* C9 (waste non-negativity): no Summary row has a negative estimated_waste,
\* whatever the GroupResult, and the Validation sheet never reports FAIL for
\* the non-negative-waste check.
C9_WasteNonNegative ==
    /\ df_summary # None =>
          \A k \in DOMAIN df_summary[1] : df_summary[1][k].EstimatedWaste >= 0
    /\ validation # None => validation[1].NonNegativeWaste = "PASS"

\* the Validation of a result with a bar over its stock length
C9_Witness ==
    /\ validation # None
    /\ validation[1].Feasibility = "FAIL"
    /\ \E e \in DOMAIN grouped_bins :
          \E i \in DOMAIN grouped_bins[e].bins :
              Load(grouped_bins[e].bins[i]) > grouped_bins[e].L + 1

\* C10 (metrics are read-only and idempotent): computing Summary, Validation,
\* Waste Report and Procurement in any order, any number of times, leaves the
\* GroupResult and the kerf as they are, and a sheet computed again is the
\* sheet computed before.
C10_MetricsReadOnly ==
    [][ pc = "packed" =>
          /\ grouped_bins' = grouped_bins
          /\ saw_width' = saw_width
          /\ df_summary # None => df_summary' = df_summary
          /\ validation # None => validation' = validation
          /\ waste_report # None => waste_report' = waste_report
          /\ procurement # None => procurement' = procurement
      ]_vars

\* all four sheets computed from a result whose bins are not in descending
\* order of total
C10_Witness ==
    /\ df_summary # None /\ validation # None
    /\ waste_report # None /\ procurement # None
    /\ \E e \in DOMAIN grouped_bins :
          \E i, j \in DOMAIN grouped_bins[e].bins :
              i < j /\ SumSeq(grouped_bins[e].bins[i]) < SumSeq(grouped_bins[e].bins[j])

\* ------------------------------------------------- claims on the whole run
\* C15 (utilization accounts for consumed stock): for every Summary row with
\* bars_used > 0 computed from the packing's own result, stock_length*bars_used
\* - estimated_waste = total_cut_length + kerf_used, so the consumed length
\* never exceeds the stock bought.  Stated for the groups of positive stock
\* length (lengths of the row are in thousandths).
C15_UtilizationAccounts ==
    (pc = "packed" /\ df_summary # None) =>
        \A k \in DOMAIN df_summary[1] :
            LET row == df_summary[1][k]
            IN (row.BarsUsed > 0 /\ row.StockLength > 0) =>
                  /\ 125 * row.StockLength * row.BarsUsed - row.EstimatedWaste
                       = row.TotalCutLength + row.ApproxKerfUsed
                  /\ row.TotalCutLength + row.ApproxKerfUsed
                       <= 125 * row.StockLength * row.BarsUsed

\* what the code keeps of C15: the identity holds for every group all of whose
\* bars are within their stock length
C15_AccountsWhenFeasible ==
    (pc = "packed" /\ df_summary # None) =>
        \A e \in DOMAIN grouped_bins :
            (\A i \in DOMAIN grouped_bins[e].bins :
                Load(grouped_bins[e].bins[i]) <= grouped_bins[e].L) =>
                LET row == df_summary[1][RowFor(grouped_bins[e])]
                IN 125 * row.StockLength * row.BarsUsed - row.EstimatedWaste
                     = row.TotalCutLength + row.ApproxKerfUsed

\* C16 (termination): bin_packing_grouped returns for every table, kerf and
\* flag: a run that has not returned can always take its next step, up to the
\* return (a run halted short of it is one whose carving loop asks for more
\* bins than any ending loop produces).
C16_Termination ==
    (pc = "while_split") => ENABLED (Carve \/ Place)

\* what the code keeps of C16: with a positive stock length every iteration of
\* the carving loop shortens the remainder, which stays positive
C16_CarvingProgress ==
    [][ (pc = "while_split" /\ pc' = "while_split" /\ max_len_val > 0) =>
            (remaining_item' < remaining_item /\ remaining_item' > 0) ]_vars

\* C17 (length conservation under splitting): with splitting on and a positive
\* stock length, the cut lengths of all bins of a group, carved bins included,
\* add up to the sum of the group's numeric input cut lengths.
C17_LengthConserved ==
    (pc = "packed" /\ allow_split_oversize) =>
        \A g \in NumericGroups :
            table[g].stock.v > 0 =>
                LET bs == grouped_bins[EntryOf(g)].bins
                    cuts == CutsOf(g)
                IN SumOver(DOMAIN bs, [i \in DOMAIN bs |-> SumOver(DOMAIN bs[i], bs[i])])
                     = SumOver(DOMAIN cuts, cuts)

\* a returned run that carved two bins off one cut and placed other pieces
C17_Witness ==
    /\ pc = "packed"
    /\ allow_split_oversize
    /\ \E e \in DOMAIN grouped_bins :
        /\ grouped_bins[e].L > 0
        /\ Cardinality(grouped_carved[e]) >= 2
        /\ Len(grouped_bins[e].bins) > Cardinality(grouped_carved[e]) + 1

\* ------------------------------------------------------ group independence
\* the bins of a group packed on its own: the sorted cuts its, stock length L,
\* the kerf and the split flag of the run, starting from the bins bs
RECURSIVE PackAlone(_, _, _)
PackAlone(its, L, bs) ==
    IF its = <<>> THEN bs
    ELSE LET c == Head(its)
         IN IF c > L /\ ~allow_split_oversize THEN PackAlone(Tail(its), L, bs)
            ELSE IF c > L /\ L <= 0 THEN bs
            ELSE LET n == IF c > L THEN CarveCount(c, L) ELSE 0
                     filled == bs \o [i \in 1..n |-> <<L>>]
                 IN PackAlone(Tail(its), L,
                              PlaceInto(filled, L, Remainder(c, L), saw_width))

\* the Issues of a group packed on its own
RECURSIVE IssuesAlone(_, _, _)
IssuesAlone(its, material, L) ==
    IF its = <<>> THEN <<>>
    ELSE (IF Head(its) > L /\ ~allow_split_oversize
          THEN <<Issue(material, L, Head(its))>> ELSE <<>>)
         \o IssuesAlone(Tail(its), material, L)

RECURSIVE AllIssuesAlone(_)
AllIssuesAlone(g) ==
    IF g > Len(table) THEN <<>>
    ELSE (IF table[g].stock.ok
          THEN IssuesAlone(SortReverse(CutsOf(g)), table[g].material, table[g].stock.v)
          ELSE <<>>)
         \o AllIssuesAlone(g + 1)

\* the result holds, under the key of group g, the bins of g packed on its own
HoldsOwnBins(g) ==
    \E e \in DOMAIN grouped_bins :
        /\ grouped_bins[e].Material = table[g].material
        /\ grouped_bins[e].L = table[g].stock.v
        /\ grouped_bins[e].bins = PackAlone(SortReverse(CutsOf(g)), table[g].stock.v, <<>>)

\* C14 (group independence): the bins returned for a group are those of the
\* group packed on its own, whatever other group the table holds and whichever
\* is packed first, and the Issues are those of the groups packed on their own.
C14_GroupIndependence ==
    (pc = "packed") =>
        /\ \A g \in NumericGroups : HoldsOwnBins(g)
        /\ SameBag(issues, AllIssuesAlone(1))

\* what the code keeps of C14: the same, for tables whose groups differ in
\* float(Max Length) or str(Material Type); and the working bins are written
\* for one group at a time, the entries of the result never
SameKey(g, h) ==
    /\ table[g].material = table[h].material
    /\ table[g].stock.v = table[h].stock.v

C14_IndependentKeys ==
    (pc = "packed") =>
        /\ \A g \in NumericGroups :
              (\A h \in NumericGroups \ {g} : ~SameKey(g, h)) => HoldsOwnBins(g)
        /\ SameBag(issues, AllIssuesAlone(1))

C14_WorkingBinsLocal ==
    [][ /\ (pc = "for_group" /\ pc' # "packed") => bins' = <<>>
        /\ \A e \in DOMAIN grouped_bins :
              (e \in DOMAIN grouped_bins' /\ grouped_bins'[e] # grouped_bins[e]) =>
                  /\ pc = "for_item" /\ pc' = "for_group"
                  /\ e = KeyIndex(grouped_bins, table[gi].material, max_len_val) ]_vars

\* ------------------------------------------------- claims on run_optimizer
ErrorTitles == {"Missing File", "File Not Found", "Kerf Error", "File Locked", "Read Error",
                "Missing Columns"}

\* the kerf text is blank, not a number or negative, or a required column is
\* missing from the columns read
RejectedInput ==
    \/ kerf_text \in EmptyTexts \cup UnparsableTexts \cup NegativeTexts
    \/ ~(Required \subseteq columns)

\* C11 (validation precedes packing): a call of run_optimizer whose kerf text
\* is empty, unparsable or negative, or whose table lacks a required column,
\* is at its error dialog with bin_packing_grouped not entered, no workbook
\* loaded for writing, no report built and no sheet of this call in the file.
C11_ValidationPrecedesPacking ==
    (pc # "idle" /\ RejectedInput) =>
        /\ pc = "dialog"
        /\ message \in ErrorTitles
        /\ table = <<>> /\ gi = 0 /\ bins = <<>> /\ grouped_bins = <<>> /\ issues = <<>>
        /\ out_wb = <<>>
        /\ df_summary = None /\ validation = None /\ waste_report = None
        /\ procurement = None
        /\ \A k \in DOMAIN wb : wb[k].by # runs

\* a second call refused for a missing column, on a workbook the first call
\* wrote into
C11_Witness ==
    /\ pc = "dialog"
    /\ message = "Missing Columns"
    /\ kerf_text \in GoodTexts
    /\ runs = 2
    /\ \E k \in DOMAIN wb : wb[k].by = 1

\* C12 (sheet name collision): once write_grouped_bins has created its sheet,
\* the sheet has the base name if no sheet had it or overwrite_sheet is true
\* (the old sheet of that name is then gone), else the name "<base> N" for the
\* smallest N >= 1 not in use; every other sheet is still there; and the
\* counter of the search never exceeds the number of sheets plus one, so the
\* search ends.
C12_SheetNameCollision ==
    LET base == Plain(DEFAULT_SHEET_NAME)
        before == SheetNames(sheets_before)
    IN /\ (pc = "name_search") => counter <= Cardinality(SheetNames(out_wb)) + 1
       /\ (pc = "written") =>
            LET new == out_wb[Len(out_wb)]
                kept == {out_wb[k] : k \in 1..(Len(out_wb) - 1)}
            IN /\ new.by = runs
               /\ \A k \in DOMAIN out_wb : out_wb[k].name = new.name => k = Len(out_wb)
               /\ (base \notin before) =>
                     /\ new.name = base
                     /\ kept = Range(sheets_before)
               /\ (base \in before /\ overwrite) =>
                     /\ new.name = base
                     /\ kept = {sh \in Range(sheets_before) : sh.name # base}
               /\ (base \in before /\ ~overwrite) =>
                     /\ \E N \in 1..Len(sheets_before) :
                           /\ new.name = Numbered(DEFAULT_SHEET_NAME, N)
                           /\ new.name \notin before
                           /\ \A M \in 1..(N - 1) :
                                 Numbered(DEFAULT_SHEET_NAME, M) \in before
                     /\ kept = Range(sheets_before)

\* the sheet "Grouped Cuts 2" created beside "Grouped Cuts" and "Grouped Cuts 1"
C12_Witness ==
    /\ pc = "written"
    /\ ~overwrite
    /\ out_wb[Len(out_wb)].name = Numbered(DEFAULT_SHEET_NAME, 2)
    /\ {Plain(DEFAULT_SHEET_NAME), Numbered(DEFAULT_SHEET_NAME, 1)}
          \subseteq SheetNames(sheets_before)

\* C13 (Issues sheet only when non-empty): at the Success dialog the output
\* workbook has a sheet "Issues" exactly if the packing of this call emitted an
\* Issue.
C13_IssuesSheetIffIssues ==
    (pc = "dialog" /\ message = "Success") =>
        (Plain("Issues") \in SheetNames(out_wb) <=> issues # <<>>)

\* what the code keeps of C13: this call writes a sheet "Issues" exactly if its
\* packing emitted an Issue
C13_IssuesWrittenIffIssues ==
    (pc = "dialog" /\ message = "Success") =>
        ((\E k \in DOMAIN out_wb : out_wb[k] = Sheet(Plain("Issues"), runs))
            <=> issues # <<>>)

====
